---------------------------- MODULE Spec2Model ----------------------------
(***************************************************************************)
(* Model of the AWS EFS CSI PV provisioner (aws-efs-csi-pv-provisioner.go). *)
(*                                                                         *)
(* Go strings are modelled as sequences of one-character strings, so that  *)
(* strings.Split, strings.HasPrefix, path.Join and filepath.Clean are      *)
(* computed character by character, as the Go library computes them.       *)
(* Long literals of the program and its deployment are abbreviated:        *)
(*   "fs"   for a file system ID such as "fs-123456",                      *)
(*   "/efs" for the mount point, "/pv" for "/persistentvolumes".           *)
(***************************************************************************)
EXTENDS Integers, Sequences, FiniteSets, TLC

VARIABLES
    fs,         \* the file system: path -> [kind, mode, uid, gid]
    allocated,  \* the GID allocator's table: the GIDs in use
    pvs,        \* the PersistentVolume objects Provision has returned
    deleted,    \* the PersistentVolumes whose Delete has returned success
    calls,      \* the Provision/Delete calls in progress
    ret,        \* the call that returned last, with its result
    ncalls,     \* number of calls started so far
    cx          \* the pure path codec applied to drawn inputs

vars == <<fs, allocated, pvs, deleted, calls, ret, ncalls, cx>>

----------------------------------------------------------------------------
(* Bounds of the model *)

\* calls the controller delivers in one behaviour
MaxCalls == 3
\* longest adversarial namespace string drawn for the codec
MaxNameLen == 3
\* longest claim / volume name drawn for the naming check
MaxPartLen == 2

----------------------------------------------------------------------------
(* Strings *)

efsCsiDriverName == "efs.csi.aws.com"

Empty == << >>

\* strings.HasPrefix
HasPrefix(s, prefix) ==
    /\ Len(s) >= Len(prefix)
    /\ SubSeq(s, 1, Len(prefix)) = prefix

\* strings.Split(s, sep) for a one-character separator: s is read from
\* position i on, cur being the part read since the last separator
RECURSIVE SplitFrom(_, _, _, _)
SplitFrom(s, sep, i, cur) ==
    IF i > Len(s) THEN <<cur>>
    ELSE IF s[i] = sep THEN <<cur>> \o SplitFrom(s, sep, i + 1, << >>)
    ELSE SplitFrom(s, sep, i + 1, Append(cur, s[i]))

Split(s, sep) == SplitFrom(s, sep, 1, << >>)

\* strings.Join(elems, sep)
RECURSIVE JoinWith(_, _)
JoinWith(elems, sep) ==
    IF Len(elems) = 0 THEN Empty
    ELSE IF Len(elems) = 1 THEN elems[1]
    ELSE elems[1] \o sep \o JoinWith(Tail(elems), sep)

DotDot == <<".", ".">>

\* The element stack of path.Clean: ".." removes the element before it; at
\* the start of a rooted path it is dropped, at the start of a relative one
\* it is kept.
RECURSIVE CleanStack(_, _, _)
CleanStack(segs, stack, rooted) ==
    IF Len(segs) = 0 THEN stack
    ELSE LET s == segs[1]
             n == Len(stack)
         IN  IF s = DotDot
             THEN IF n > 0 /\ stack[n] # DotDot
                  THEN CleanStack(Tail(segs), SubSeq(stack, 1, n - 1), rooted)
                  ELSE IF rooted
                       THEN CleanStack(Tail(segs), stack, rooted)
                       ELSE CleanStack(Tail(segs), Append(stack, s), rooted)
             ELSE CleanStack(Tail(segs), Append(stack, s), rooted)

\* path.Clean / filepath.Clean (identical on Linux): the shortest path name
\* equivalent to path by purely lexical processing.
Clean(path) ==
    IF Len(path) = 0 THEN <<".">>
    ELSE LET rooted == path[1] = "/"
             IsElem(s) == s # Empty /\ s # <<".">>
             segs == SelectSeq(Split(path, "/"), IsElem)
             out == JoinWith(CleanStack(segs, << >>, rooted), <<"/">>)
         IN  IF rooted THEN <<"/">> \o out
             ELSE IF Len(out) = 0 THEN <<".">> ELSE out

\* path.Join: empty elements are ignored, the rest joined by "/" and
\* cleaned; the empty string when every element is empty.
Join(elems) ==
    LET IsNonEmpty(s) == s # Empty
        kept == SelectSeq(elems, IsNonEmpty)
    IN  IF Len(kept) = 0 THEN Empty ELSE Clean(JoinWith(kept, <<"/">>))


\* every string over alphabet of length lo..hi
Strs(alphabet, lo, hi) == UNION {[1..k -> alphabet] : k \in lo..hi}

Contains(s, c) == \E i \in 1..Len(s) : s[i] = c

----------------------------------------------------------------------------
(* The path codec: directory name, local path, remote path, volume handle *)

nil == "nil"

\* a directory name that leaves the volume's name out
getDirectoryNameNoPV(options) ==
    options.Namespace \o <<"-">> \o options.Name

\* options.PVC.Namespace + "-" + options.PVC.Name + "-" + options.PVName
getDirectoryName(options) ==
    options.Namespace \o <<"-">> \o options.Name \o <<"-">> \o options.PVName

\* a local path that leaves the sub-path out
getLocalPathNoSubPath(p, options) ==
    Join(<<p.mountPoint, <<"/">>, options.Namespace \o <<"-">> \o options.Name
                                     \o <<"-">> \o options.PVName>>)

\* p is the efsProvisioner: its fileSystemID, mountPoint and subPath
getLocalPath(p, options) ==
    Join(<<p.mountPoint, <<"/">>, p.subPath, <<"/">>, getDirectoryName(options)>>)

getRemotePath(p, options) ==
    Join(<<<<"/">>, p.subPath, <<"/">>, getDirectoryName(options)>>)

\* fmt.Sprintf("%s:%s", p.fileSystemID, p.getRemotePath(options))
VolumeHandle(p, options) ==
    p.fileSystemID \o <<":">> \o getRemotePath(p, options)

\* The path a volume's directory is removed at, or the error that rejects
\* the volume's CSI source.
getLocalPathToDelete(p, csi) ==
    LET parts == Split(csi.VolumeHandle, ":")
        subPath == Clean(parts[2])
        prefix == Join(<<<<"/">>, p.subPath>>) \o <<"/">>
    IN  IF csi.Driver # efsCsiDriverName
        THEN [path |-> Empty, err |-> "DriverMismatch"]
        ELSE IF Len(parts) # 2
        THEN [path |-> Empty, err |-> "InvalidHandleFormat"]
        ELSE IF parts[1] # p.fileSystemID
        THEN [path |-> Empty, err |-> "FilesystemMismatch"]
        ELSE IF ~HasPrefix(subPath, prefix) \/ subPath = prefix
        THEN [path |-> Empty, err |-> "InvalidSubpath"]
        ELSE [path |-> Join(<<p.mountPoint, <<"/">>, parts[2]>>), err |-> nil]

\* path is a strict descendant of directory dir (both cleaned)
Inside(path, dir) ==
    IF dir = <<"/">> THEN HasPrefix(path, dir) /\ path # dir
    ELSE HasPrefix(path, dir \o <<"/">>) /\ Len(path) > Len(dir) + 1

----------------------------------------------------------------------------
(* The file system *)

\* os.ModeSetgid, bit 22 of os.FileMode
ModeSetgid == 4194304
\* the process umask that os.MkdirAll is subject to (022)
Umask == 18
\* os.Getuid() of the provisioner process
Getuid == 0

RECURSIVE AndNot(_, _)
AndNot(a, b) ==
    IF a = 0 THEN 0
    ELSE (IF a % 2 = 1 /\ b % 2 = 0 THEN 1 ELSE 0) + 2 * AndNot(a \div 2, b \div 2)

\* mkdir(2) honours the permission bits only, less the umask
MkdirMode(perm) == AndNot(perm % 512, Umask)

Exists(f, path) == path \in DOMAIN f

\* path and everything below it
Tree(f, path) ==
    {q \in DOMAIN f : q = path \/ Inside(q, path)}

\* path and its ancestors, as os.MkdirAll walks them
Prefixes(path) ==
    {SubSeq(path, 1, i - 1) : i \in {j \in 2..Len(path) : path[j] = "/"}}
        \cup {path}

NewDir(perm) ==
    [kind |-> "dir", mode |-> MkdirMode(perm), uid |-> Getuid, gid |-> 0]

\* os.MkdirAll can succeed: no element of the path is a file
CanMkdirAll(f, path) ==
    \A q \in Prefixes(path) : Exists(f, q) => f[q].kind = "dir"

\* os.MkdirAll(path, perm) succeeding: nothing changes when path is a
\* directory already; else the missing directories are created
MkdirAllFs(f, path, perm) ==
    [q \in DOMAIN f \cup Prefixes(path) |->
        IF Exists(f, q) THEN f[q] ELSE NewDir(perm)]

\* a createVolume that relies on os.MkdirAll for the mode
ChmodSkipped(f, path, perm) == f

\* os.Chmod(path, perm) succeeding
ChmodFs(f, path, perm) == [f EXCEPT ![path].mode = perm]

\* os.Chown(path, uid, gid) succeeding
ChownFs(f, path, uid, gid) == [f EXCEPT ![path].uid = uid, ![path].gid = gid]

\* os.RemoveAll(path) succeeding: path and any children it contains are
\* removed; nothing changes when path does not exist
RemoveAllFs(f, path) ==
    [q \in DOMAIN f \ Tree(f, path) |-> f[q]]

\* a removal that, as os.Remove does, fails on a path that does not exist
RemoveAllOutcomesStrict(f, path) ==
    IF ~Exists(f, path)
    THEN {[fs |-> f, err |-> "RemoveFailed"]}
    ELSE {[fs |-> [q \in DOMAIN f \ Tree(f, path) |-> f[q]], err |-> nil],
          [fs |-> f, err |-> "RemoveFailed"]}

\* The outcomes of os.RemoveAll(path): nil when path does not exist; else
\* nil with the tree removed, or an error with the tree left in place.
RemoveAllOutcomes(f, path) ==
    IF ~Exists(f, path)
    THEN {[fs |-> f, err |-> nil]}
    ELSE {[fs |-> RemoveAllFs(f, path), err |-> nil],
          [fs |-> f, err |-> "RemoveFailed"]}

----------------------------------------------------------------------------
(* Requests, volumes and the GID allocator *)

\* the flags' defaults: -mountpoint /efs, -subpath /persistentvolumes
DefaultProvisioner ==
    [fileSystemID |-> <<"f", "s">>,
     mountPoint |-> <<"/", "e", "f", "s">>,
     subPath |-> <<"/", "p", "v">>]

Workers == {"w1", "w2"}

\* gid == nil: no GID was allocated, the volume has no GID annotation
NoGid == -1
\* a call that is not a Provision has no request, one that is not a Delete
\* or has returned no PersistentVolume has no volume
NoOptions ==
    [Namespace |-> Empty, Name |-> Empty, PVName |-> Empty,
     Selector |-> FALSE, gidallocate |-> "absent"]
NoVolume ==
    [Name |-> Empty, Gid |-> NoGid,
     CSI |-> [Driver |-> "", VolumeHandle |-> Empty]]

\* the GIDs of the storage class's range (gidMin..gidMax)
GidPool == {2000, 2001}

\* The provision requests the controller delivers: one claim per volume
\* name, the PV names unique and of one length (pvc-<UID of PVC>).
\* gidallocate is the storage class parameter's text, or "absent".
ProvisionRequests ==
    [Namespace : {<<"n">>}, Name : {<<"c">>}, PVName : {<<"v">>, <<"w">>},
     Selector : {FALSE}, gidallocate : {"absent", "false", "yes"}]
        \cup [Namespace : {<<"n">>}, Name : {<<"c">>}, PVName : {<<"v">>, <<"w">>},
              Selector : {TRUE}, gidallocate : {"absent"}]

\* strconv.ParseBool
ParseBool(v) ==
    IF v \in {"1", "t", "T", "TRUE", "true", "True"}
    THEN [b |-> TRUE, err |-> nil]
    ELSE IF v \in {"0", "f", "F", "FALSE", "false", "False"}
    THEN [b |-> FALSE, err |-> nil]
    ELSE [b |-> FALSE, err |-> "InvalidParameterValue"]

\* the request is rejected before anything is allocated or created
ValidateRequest(options) ==
    IF options.Selector THEN "SelectorNotSupported"
    ELSE IF options.gidallocate # "absent"
    THEN ParseBool(options.gidallocate).err
    ELSE nil

gidAllocate(options) ==
    IF options.gidallocate = "absent" THEN TRUE
    ELSE ParseBool(options.gidallocate).b

\* The PersistentVolume that Provision returns (the fields copied through
\* from the request unread, such as capacity and access modes, left out).
BuildPV(p, options, gid) ==
    [Name |-> options.PVName,
     CSI |-> [Driver |-> efsCsiDriverName, VolumeHandle |-> VolumeHandle(p, options)],
     Gid |-> gid]

\* allocator.AllocateNext: a free GID of the range, or an error
AllocateNextOutcomes(table) ==
    {[gid |-> g, table |-> table \cup {g}, err |-> nil] : g \in GidPool \ table}
        \cup {[gid |-> NoGid, table |-> table, err |-> "GidAllocationFailed"]}

\* allocator.Release: frees the GID the volume's annotation names (nothing
\* to free without the annotation), or an error
ReleaseOutcomes(table, volume) ==
    {[table |-> table \ {volume.Gid}, err |-> nil],
     [table |-> table, err |-> "GidReleaseFailed"]}

\* perm of createVolume: 0777, or 0771 | os.ModeSetgid with a GID
createVolumePerm(gid) ==
    IF gid # NoGid THEN 505 + ModeSetgid ELSE 511

\* Volumes the controller may be asked to delete although Provision never
\* returned them as they are: handles of TestGetLocalPathToDelete (one on a
\* volume that carries a GID annotation) and a handle that climbs out of
\* the mount point.
ForgedVolumes ==
    {[Name |-> <<"x", "1">>, Gid |-> NoGid,
      CSI |-> [Driver |-> "efs.something", VolumeHandle |-> <<"f", "s">>]],
     [Name |-> <<"x", "2">>, Gid |-> NoGid,
      CSI |-> [Driver |-> efsCsiDriverName, VolumeHandle |-> <<"f", "s">>]],
     [Name |-> <<"x", "3">>, Gid |-> NoGid,
      CSI |-> [Driver |-> efsCsiDriverName,
               VolumeHandle |-> <<"f", "x", ":", "/", "p", "v", "/", "x">>]],
     [Name |-> <<"x", "4">>, Gid |-> 2000,
      CSI |-> [Driver |-> efsCsiDriverName,
               VolumeHandle |-> <<"f", "s", ":", "/", "p", "v", "/", ".", ".">>]],
     [Name |-> <<"x", "5">>, Gid |-> NoGid,
      CSI |-> [Driver |-> efsCsiDriverName,
               VolumeHandle |-> <<"f", "s", ":", "/", ".", ".", "/", "p", "v", "/", "x">>]]}

\* The provisioner's pure functions are applied to the same few requests
\* and volumes in every state: their values are tabulated once.
WellFormedVolumes ==
    {BuildPV(DefaultProvisioner, o, g) :
        o \in {r \in ProvisionRequests : ValidateRequest(r) = nil},
        g \in GidPool \cup {NoGid}}

LocalPath ==
    [o \in ProvisionRequests |-> getLocalPath(DefaultProvisioner, o)]

PersistentVolume ==
    [o \in ProvisionRequests, g \in GidPool \cup {NoGid} |->
        BuildPV(DefaultProvisioner, o, g)]

LocalPathToDelete ==
    [v \in ForgedVolumes \cup WellFormedVolumes |->
        getLocalPathToDelete(DefaultProvisioner, v.CSI)]

\* The volumes Delete may be called with: those Provision returned (again
\* after a Delete that succeeded: delivery is at least once), well-formed
\* volumes whose directory was never created, and forged ones.
DeleteRequests ==
    pvs \cup deleted \cup ForgedVolumes
        \cup {v \in WellFormedVolumes : v.Gid = NoGid}

----------------------------------------------------------------------------
(* Provision and Delete, step by step *)

\* A call: its arguments, how far it has got (pc), what it has computed
\* (gid, path), whether path existed when it first touched it, the calls it
\* has made out of the provisioner (trace), the error of the rollback's
\* os.RemoveAll, which the code discards (cleanup), and what it returns
\* (err, pv).
Idle ==
    [op |-> "none", pc |-> "idle", options |-> NoOptions, volume |-> NoVolume,
     gid |-> NoGid, path |-> Empty, existed |-> FALSE, err |-> nil,
     cleanup |-> "none", pv |-> NoVolume, trace |-> << >>]

\* the name of the volume a call works on
Target(c) == IF c.op = "Provision" THEN c.options.PVName ELSE c.volume.Name

\* The controller's workers run calls concurrently, for distinct volumes.
WorkerFree ==
    /\ ncalls < MaxCalls
    /\ Cardinality(calls) < Cardinality(Workers)

CanBegin(name) ==
    /\ WorkerFree
    /\ \A c \in calls : Target(c) # name

\* c goes on as d
Continue(c, d) ==
    /\ calls' = (calls \ {c}) \cup {d}
    /\ ret' = ret

\* c, having got as far as d, returns err (and pv)
Return(c, d, err, pv) ==
    /\ calls' = calls \ {c}
    /\ ret' = [d EXCEPT !.pc = "done", !.err = err, !.pv = pv]

\* Provision up to the call of createVolume: the selector and the
\* gidallocate parameter are checked, then a GID is allocated if asked for.
ProvisionBegin(options) ==
    /\ CanBegin(options.PVName)
    /\ ncalls' = ncalls + 1
    /\ LET c == [Idle EXCEPT !.op = "Provision", !.options = options]
           verr == ValidateRequest(options)
       IN  IF verr # nil
           THEN /\ Return(c, c, verr, NoVolume)
                /\ allocated' = allocated
           ELSE IF gidAllocate(options)
           THEN \E a \in AllocateNextOutcomes(allocated) :
                    LET d == [c EXCEPT !.gid = a.gid, !.trace = <<"AllocateNext">>]
                    IN  /\ allocated' = a.table
                        /\ IF a.err = nil
                           THEN Continue(c, [d EXCEPT !.pc = "mkdir"])
                           ELSE Return(c, d, a.err, NoVolume)
           ELSE /\ Continue(c, [c EXCEPT !.pc = "mkdir"])
                /\ allocated' = allocated
    /\ UNCHANGED <<fs, pvs, deleted, cx>>

\* a createVolume that returns the error without cleaning up
RollbackNone(f, path) == {[fs |-> f, err |-> nil]}

\* createVolume's rollback: os.RemoveAll(path)
Rollback(f, path) == RemoveAllOutcomes(f, path)

\* a Provision that gives the GID back when createVolume fails
ProvisionFailedReleases(table, gid) == table \ {gid}

\* Provision returns createVolume's error and nothing else: the allocator's
\* table is as it was
ProvisionFailed(table, gid) == table

\* createVolume: os.MkdirAll(path, perm)
MkdirAll(c) ==
    LET path == LocalPath[c.options]
        perm == createVolumePerm(c.gid)
        d == [c EXCEPT !.path = path, !.existed = Exists(fs, path),
                       !.trace = Append(c.trace, "MkdirAll")]
    IN  /\ c.pc = "mkdir"
        /\ \E ok \in (IF CanMkdirAll(fs, path) THEN BOOLEAN ELSE {FALSE}) :
              IF ok
              THEN /\ fs' = MkdirAllFs(fs, path, perm)
                   /\ Continue(c, [d EXCEPT !.pc = "chmod"])
                   /\ allocated' = allocated
              ELSE /\ fs' = fs
                   /\ Return(c, d, "MkdirFailed", NoVolume)
                   /\ allocated' = ProvisionFailed(allocated, c.gid)
        /\ UNCHANGED <<pvs, deleted, ncalls, cx>>

\* Provision after createVolume returned nil: the PersistentVolume is built
\* and returned to the controller, which stores it under its name.
ProvisionReturn(c, d) ==
    LET pv == PersistentVolume[c.options, c.gid]
    IN  /\ Return(c, d, nil, pv)
        /\ pvs' = {v \in pvs : v.Name # pv.Name} \cup {pv}
        /\ deleted' = deleted \ {pv}

\* createVolume: os.Chmod(path, perm), "due to umask"
Chmod(c) ==
    LET perm == createVolumePerm(c.gid)
        d == [c EXCEPT !.trace = Append(c.trace, "Chmod")]
    IN  /\ c.pc = "chmod"
        /\ \E ok \in (IF Exists(fs, c.path) THEN BOOLEAN ELSE {FALSE}) :
              IF ok
              THEN /\ fs' = ChmodFs(fs, c.path, perm)
                   /\ IF c.gid # NoGid
                      THEN /\ Continue(c, [d EXCEPT !.pc = "chown"])
                           /\ UNCHANGED <<pvs, deleted>>
                      ELSE ProvisionReturn(c, d)
                   /\ allocated' = allocated
              ELSE \E r \in Rollback(fs, c.path) :
                      /\ fs' = r.fs
                      /\ Return(c, [d EXCEPT !.trace = Append(d.trace, "RemoveAll"),
                                             !.cleanup = r.err],
                                "ChmodFailed", NoVolume)
                      /\ allocated' = ProvisionFailed(allocated, c.gid)
                      /\ UNCHANGED <<pvs, deleted>>
        /\ UNCHANGED <<ncalls, cx>>

\* createVolume: os.Chown(path, os.Getuid(), *gid)
Chown(c) ==
    LET d == [c EXCEPT !.trace = Append(c.trace, "Chown")]
    IN  /\ c.pc = "chown"
        /\ \E ok \in (IF Exists(fs, c.path) THEN BOOLEAN ELSE {FALSE}) :
              IF ok
              THEN /\ fs' = ChownFs(fs, c.path, Getuid, c.gid)
                   /\ ProvisionReturn(c, d)
                   /\ allocated' = allocated
              ELSE \E r \in Rollback(fs, c.path) :
                      /\ fs' = r.fs
                      /\ Return(c, [d EXCEPT !.trace = Append(d.trace, "RemoveAll"),
                                             !.cleanup = r.err],
                                "ChownFailed", NoVolume)
                      /\ allocated' = ProvisionFailed(allocated, c.gid)
                      /\ UNCHANGED <<pvs, deleted>>
        /\ UNCHANGED <<ncalls, cx>>

\* a Delete that validates the handle first and releases the GID after
DeleteBeginValidateFirst(volume) ==
    /\ CanBegin(volume.Name)
    /\ ncalls' = ncalls + 1
    /\ LET c == [Idle EXCEPT !.op = "Delete", !.volume = volume, !.gid = volume.Gid]
           got == LocalPathToDelete[volume]
           d == [c EXCEPT !.path = got.path, !.trace = <<"getLocalPathToDelete">>]
       IN  IF got.err # nil
           THEN /\ Return(c, d, got.err, NoVolume)
                /\ allocated' = allocated
           ELSE \E rel \in ReleaseOutcomes(allocated, volume) :
                   /\ allocated' = rel.table
                   /\ IF rel.err # nil
                      THEN Return(c, [d EXCEPT !.trace = Append(d.trace, "Release")],
                                  rel.err, NoVolume)
                      ELSE Continue(c, [d EXCEPT !.pc = "remove",
                                                 !.trace = Append(d.trace, "Release")])
    /\ UNCHANGED <<fs, pvs, deleted, cx>>

\* Delete up to the call of os.RemoveAll: the GID is released, then the
\* volume's handle is decoded and validated.
DeleteBegin(volume) ==
    /\ CanBegin(volume.Name)
    /\ ncalls' = ncalls + 1
    /\ LET c == [Idle EXCEPT !.op = "Delete", !.volume = volume, !.gid = volume.Gid]
       IN  \E rel \in ReleaseOutcomes(allocated, volume) :
              /\ allocated' = rel.table
              /\ IF rel.err # nil
                 THEN Return(c, [c EXCEPT !.trace = <<"Release">>], rel.err, NoVolume)
                 ELSE LET got == LocalPathToDelete[volume]
                          d == [c EXCEPT !.path = got.path,
                                         !.trace = <<"Release", "getLocalPathToDelete">>]
                      IN  IF got.err # nil
                          THEN Return(c, d, got.err, NoVolume)
                          ELSE Continue(c, [d EXCEPT !.pc = "remove"])
    /\ UNCHANGED <<fs, pvs, deleted, cx>>

\* Delete: os.RemoveAll(path) and the return of its error; the controller
\* drops the PersistentVolume of a Delete that returned nil.
DeleteRemoveAll(c) ==
    /\ c.pc = "remove"
    /\ \E r \in RemoveAllOutcomes(fs, c.path) :
          /\ fs' = r.fs
          /\ Return(c, [c EXCEPT !.existed = Exists(fs, c.path),
                              !.trace = Append(c.trace, "RemoveAll")],
                    r.err, NoVolume)
          /\ IF r.err = nil /\ c.volume \in pvs
             THEN /\ pvs' = pvs \ {c.volume}
                  /\ deleted' = deleted \cup {c.volume}
             ELSE UNCHANGED <<pvs, deleted>>
    /\ UNCHANGED <<allocated, ncalls, cx>>

\* A pod that mounts a provisioned volume takes its directory over (chown
\* to the pod's user, as an init container does) and writes a file into it.
ClientUse(v) ==
    LET dir == LocalPathToDelete[v].path
        file == dir \o <<"/", "f">>
    IN  /\ v \in pvs
        /\ \A c \in calls : Target(c) # v.Name
        /\ Exists(fs, dir)
        /\ ~Exists(fs, file)
        /\ fs' = [q \in DOMAIN fs \cup {file} |->
                    IF q = file
                    THEN [kind |-> "file", mode |-> 420, uid |-> 1000, gid |-> fs[dir].gid]
                    ELSE IF q = dir THEN [fs[q] EXCEPT !.uid = 1000]
                    ELSE fs[q]]
        /\ UNCHANGED <<allocated, pvs, deleted, calls, ret, ncalls, cx>>

----------------------------------------------------------------------------
(* The provisioner as main() builds it and the controller drives it *)

CxNone == [phase |-> "none"]

\* the file system is mounted and empty, the allocator's table is empty and
\* the controller has called nothing yet
Started ==
    /\ fs = [q \in {DefaultProvisioner.mountPoint} |->
                [kind |-> "dir", mode |-> 493, uid |-> 0, gid |-> 0]]
    /\ allocated = {}
    /\ pvs = {}
    /\ deleted = {}
    /\ calls = {}
    /\ ret = Idle
    /\ ncalls = 0

Init ==
    /\ Started
    /\ cx = CxNone

Next ==
    \/ WorkerFree /\ \E options \in ProvisionRequests : ProvisionBegin(options)
    \/ \E c \in calls : MkdirAll(c)
    \/ \E c \in calls : Chmod(c)
    \/ \E c \in calls : Chown(c)
    \/ WorkerFree /\ \E volume \in DeleteRequests : DeleteBegin(volume)
    \/ \E c \in calls : DeleteRemoveAll(c)
    \/ \E v \in pvs : ClientUse(v)

Spec == Init /\ [][Next]_vars

----------------------------------------------------------------------------
(* The path codec on its own: a request is encoded as Provision encodes it *)
(* and its volume handle decoded as Delete decodes it                      *)

\* the provisioners the flags can build: the mount point of main() and of
\* the tests, a sub-path and the file system's root as the sub-path
CodecProvisioners ==
    [fileSystemID : {<<"f", "s">>},
     mountPoint : {<<"/", "e", "f", "s">>, <<".", "/", "e", "f", "s">>},
     subPath : {<<"/", "p", "v">>, <<"/">>}]

\* requests whose namespace is any string over a letter and the characters
\* the codec gives a meaning to
CodecRequests ==
    [Namespace : Strs({"n", "/", ".", ":"}, 1, MaxNameLen),
     Name : {<<"c">>}, PVName : {<<"v">>},
     Selector : {FALSE}, gidallocate : {"false"}]

InitCodec ==
    /\ Started
    /\ cx \in [phase : {"drawn"}, p : CodecProvisioners, options : CodecRequests,
               local : {Empty}, pv : {NoVolume},
               got : {[path |-> Empty, err |-> nil]}]

\* Provision's part: the local path of createVolume and the volume returned
Encode ==
    /\ cx.phase = "drawn"
    /\ cx' = [cx EXCEPT !.phase = "encoded",
                        !.local = getLocalPath(cx.p, cx.options),
                        !.pv = BuildPV(cx.p, cx.options, NoGid)]
    /\ UNCHANGED <<fs, allocated, pvs, deleted, calls, ret, ncalls>>

\* Delete's part: the path os.RemoveAll is called with, or the error
Decode ==
    /\ cx.phase = "encoded"
    /\ cx' = [cx EXCEPT !.phase = "decoded",
                        !.got = getLocalPathToDelete(cx.p, cx.pv.CSI)]
    /\ UNCHANGED <<fs, allocated, pvs, deleted, calls, ret, ncalls>>

NextCodec ==
    \/ Encode
    \/ Decode

SpecCodec == InitCodec /\ [][NextCodec]_vars

----------------------------------------------------------------------------
(* Two Provision calls for two requests, each deriving the path it creates *)

\* claim names and volume names over a letter and the separator, and two
\* volume names that path.Join cleans to one
NamedRequests ==
    [Namespace : {<<"n">>},
     Name : Strs({"a", "-"}, 1, MaxPartLen),
     PVName : Strs({"a", "-"}, 1, MaxPartLen)
                \cup {<<"a", "/", ".">>, <<"a", "/", "/">>},
     Selector : {FALSE}, gidallocate : {"false"}]

InitNames ==
    /\ Started
    /\ cx \in [phase : {"names"}, options : [1..2 -> NamedRequests],
               derived : {{}}, name : {<<Empty, Empty>>}, path : {<<Empty, Empty>>}]

\* call i computes getDirectoryName and getLocalPath of its request
DerivePath(i) ==
    /\ cx.phase = "names"
    /\ i \notin cx.derived
    /\ cx' = [cx EXCEPT !.derived = @ \cup {i},
                        !.name[i] = getDirectoryName(cx.options[i]),
                        !.path[i] = getLocalPath(DefaultProvisioner, cx.options[i])]
    /\ UNCHANGED <<fs, allocated, pvs, deleted, calls, ret, ncalls>>

NextNames == \E i \in 1..2 : DerivePath(i)

SpecNames == InitNames /\ [][NextNames]_vars

----------------------------------------------------------------------------
(* What the properties speak of *)

\* the storage root: the sub-path under the mount point
StorageRoot == DefaultProvisioner.mountPoint \o DefaultProvisioner.subPath

\* mountPoint/storageRoot/<namespace>-<claimName>-<volumeName>, spelled out
ExpectedDirectory(options) ==
    StorageRoot \o <<"/">> \o options.Namespace \o <<"-">> \o options.Name
        \o <<"-">> \o options.PVName

\* filesystemID:storageRoot/<namespace>-<claimName>-<volumeName>, spelled out
ExpectedHandle(options) ==
    DefaultProvisioner.fileSystemID \o <<":">> \o DefaultProvisioner.subPath
        \o <<"/">> \o options.Namespace \o <<"-">> \o options.Name
        \o <<"-">> \o options.PVName

\* the directory of a volume that Provision returned: the mount point
\* followed by what follows the file system ID and the colon in its handle
DirectoryOf(v) ==
    DefaultProvisioner.mountPoint
        \o SubSeq(v.CSI.VolumeHandle, Len(DefaultProvisioner.fileSystemID) + 2,
                  Len(v.CSI.VolumeHandle))

\* call c returns in this step, after a step of its own earlier
Returning(c) == c \in calls /\ calls' = calls \ {c}

\* a call begins and returns in this one step
BeginsAndReturns == calls' = calls /\ ncalls' = ncalls + 1

ValidationErrors ==
    {"DriverMismatch", "InvalidHandleFormat", "FilesystemMismatch", "InvalidSubpath"}

CreateErrors == {"MkdirFailed", "ChmodFailed", "ChownFailed"}

----------------------------------------------------------------------------
(* Properties *)

\* C1: Delete decodes a handle only to a path strictly inside the storage
\* root: whenever a Delete has got past the validation of its volume's
\* handle, the handle's path part, cleaned, is a strict descendant of the
\* sub-path, and the path it is about to call os.RemoveAll with is a strict
\* descendant of mountPoint/subPath; so no Delete removes the storage root,
\* the mount point or anything outside them.
DeleteStaysInsideStorageRoot ==
    \A c \in calls :
        c.op = "Delete" /\ c.pc = "remove" =>
            /\ Inside(Clean(Split(c.volume.CSI.VolumeHandle, ":")[2]),
                      DefaultProvisioner.subPath)
            /\ Inside(c.path, StorageRoot)

\* C2: round trip: for every provisioner and request, decoding the volume
\* handle that Provision built for the request succeeds and returns exactly
\* the local path Provision created the directory at.
RoundTrip ==
    cx.phase = "decoded" => cx.got.err = nil /\ cx.got.path = cx.local

\* C3: provision then deprovision removes exactly one directory: when
\* Provision returns success the volume's directory exists at
\* mountPoint/storageRoot/<namespace>-<claimName>-<volumeName> and the handle
\* returned is filesystemID:storageRoot/<that name>; when a Delete of a
\* volume Provision returned returns success its directory and everything
\* below are absent, the storage root is still there, and the directory
\* tree of every other provisioned volume is what it was.
ProvisionThenDelete ==
    [][\A c \in calls :
          Returning(c) /\ ret'.err = nil =>
              /\ c.op = "Provision" =>
                    /\ Exists(fs', ExpectedDirectory(c.options))
                    /\ fs'[ExpectedDirectory(c.options)].kind = "dir"
                    /\ ret'.pv.CSI.Driver = efsCsiDriverName
                    /\ ret'.pv.CSI.VolumeHandle = ExpectedHandle(c.options)
                    /\ ret'.pv \in pvs'
              /\ c.op = "Delete" /\ c.volume \in pvs =>
                    /\ Tree(fs', DirectoryOf(c.volume)) = {}
                    /\ Exists(fs', StorageRoot)
                    /\ fs'[StorageRoot] = fs[StorageRoot]
                    /\ \A v \in pvs \ {c.volume} :
                          /\ Tree(fs', DirectoryOf(v)) = Tree(fs, DirectoryOf(v))
                          /\ \A q \in Tree(fs, DirectoryOf(v)) : fs'[q] = fs[q]
      ]_vars

\* C3 witness: a Delete of a provisioned volume has returned success, having
\* removed a directory that existed, while another provisioned volume's
\* directory, with a file in it, is in place.
ProvisionThenDeleteWitness ==
    /\ ret.op = "Delete" /\ ret.err = nil /\ ret.existed
    /\ ret.volume \in deleted
    /\ ~Exists(fs, DirectoryOf(ret.volume))
    /\ \E v \in pvs : /\ v.Name # ret.volume.Name
                      /\ Exists(fs, DirectoryOf(v) \o <<"/", "f">>)

\* C4 as stated: whenever createVolume returns success, whatever path was
\* before, the directory has permission 0777 without a GID, and permission
\* 0771 plus set-group-ID, group gid and its owner unchanged with a GID.
CreateSetsModeAndGroupKeepsOwner ==
    [][\A c \in calls :
          Returning(c) /\ c.op = "Provision" /\ ret'.err = nil =>
              /\ Exists(fs', c.path) /\ fs'[c.path].kind = "dir"
              /\ c.gid = NoGid => fs'[c.path].mode = 511
              /\ c.gid # NoGid =>
                    /\ fs'[c.path].mode = 505 + ModeSetgid
                    /\ fs'[c.path].gid = c.gid
                    /\ fs'[c.path].uid = fs[c.path].uid
      ]_vars

\* C4 amended: whenever createVolume returns success, whatever path was
\* before, the directory has permission 0777 without a GID, and permission
\* 0771 plus set-group-ID, group gid and the provisioner process's user as
\* its owner with a GID.
CreateSetsModeGroupAndOwner ==
    [][\A c \in calls :
          Returning(c) /\ c.op = "Provision" /\ ret'.err = nil =>
              /\ Exists(fs', c.path) /\ fs'[c.path].kind = "dir"
              /\ c.gid = NoGid => fs'[c.path].mode = 511
              /\ c.gid # NoGid =>
                    /\ fs'[c.path].mode = 505 + ModeSetgid
                    /\ fs'[c.path].gid = c.gid
                    /\ fs'[c.path].uid = Getuid
      ]_vars

\* C4 witness: Provision with a GID has returned success on a directory
\* that existed before the call and that a pod had written to (and so had
\* taken over): it has the mode, the group and the provisioner as owner.
CreateSetsModeGroupAndOwnerWitness ==
    /\ ret.op = "Provision" /\ ret.err = nil /\ ret.gid # NoGid /\ ret.existed
    /\ Exists(fs, ret.path \o <<"/", "f">>)
    /\ fs[ret.path].mode = 505 + ModeSetgid
    /\ fs[ret.path].gid = ret.gid
    /\ fs[ret.path].uid = Getuid

\* C5: deprovision is idempotent: a Delete with a valid handle whose
\* directory is absent when it comes to remove it returns success and
\* leaves the file system as it is, so it never fails because of the
\* absence; and a Delete that reports a failed removal found its path
\* present.
DeleteOfAbsentDirectory ==
    [][\A c \in calls :
          Returning(c) /\ c.op = "Delete" =>
              /\ ~Exists(fs, c.path) => ret'.err = nil /\ fs' = fs
              /\ ret'.err = "RemoveFailed" => Exists(fs, c.path)
      ]_vars

\* C5 witness: a Delete delivered again for a volume whose earlier Delete
\* succeeded has returned success without finding anything to remove.
DeleteOfAbsentDirectoryWitness ==
    /\ ret.op = "Delete" /\ ret.err = nil /\ ~ret.existed
    /\ ret.volume \in deleted
    /\ ret.trace = <<"Release", "getLocalPathToDelete", "RemoveAll">>
    /\ ~Exists(fs, ret.path)

\* the two requests differ as triples and in their volume names
DistinctVolumes ==
    /\ cx.options[1] # cx.options[2]
    /\ cx.options[1].PVName # cx.options[2].PVName

\* the volume names are of the form the controller gives them
\* (pvc-<UID of PVC>): of one length and without a slash
ControllerNamed ==
    /\ Len(cx.options[1].PVName) = Len(cx.options[2].PVName)
    /\ \A i \in 1..2 : ~Contains(cx.options[i].PVName, "/")

\* C6 as stated: two Provision calls for requests that differ as triples
\* and have distinct volume names derive different directory names and
\* different local paths, however the calls interleave.
DistinctVolumesDistinctPaths ==
    cx.phase = "names" /\ cx.derived = {1, 2} /\ DistinctVolumes =>
        /\ cx.name[1] # cx.name[2]
        /\ cx.path[1] # cx.path[2]

\* C6 amended: two Provision calls for requests with distinct volume names
\* of one length that contain no slash (the pvc-<UID> names of the
\* controller) derive different directory names and different local paths,
\* however the calls interleave.
ControllerNamedDistinctPaths ==
    cx.phase = "names" /\ cx.derived = {1, 2} /\ DistinctVolumes /\ ControllerNamed =>
        /\ cx.name[1] # cx.name[2]
        /\ cx.path[1] # cx.path[2]

\* C6 witness: both calls have derived their paths, for requests that
\* differ in the claim's name and in the volume's name, the volume names
\* being of one length, and the paths differ.
ControllerNamedDistinctPathsWitness ==
    /\ cx.phase = "names" /\ cx.derived = {1, 2}
    /\ DistinctVolumes /\ ControllerNamed
    /\ cx.options[1].Name # cx.options[2].Name
    /\ Len(cx.options[1].Name) # Len(cx.options[2].Name)
    /\ cx.path[1] # cx.path[2]

ReleaseBeforeValidation ==
    [][/\ BeginsAndReturns /\ ret'.op = "Delete" =>
             /\ fs' = fs
             /\ ret'.err \in ValidationErrors \cup {"GidReleaseFailed"}
             /\ ret'.err \in ValidationErrors =>
                   /\ ret'.trace = <<"Release", "getLocalPathToDelete">>
                   /\ allocated' = allocated \ {ret'.volume.Gid}
             /\ ret'.err = "GidReleaseFailed" =>
                   /\ ret'.trace = <<"Release">>
                   /\ allocated' = allocated
       /\ \A c \in calls :
             Returning(c) /\ c.op = "Delete" =>
                 /\ ret'.trace = <<"Release", "getLocalPathToDelete", "RemoveAll">>
                 /\ allocated' = allocated
                 /\ ret'.err \in {nil, "RemoveFailed"}
      ]_vars

\* C8 witness: a Delete of a volume whose handle names the storage root
\* itself has returned InvalidSubpath after releasing the volume's GID,
\* which a provisioned volume carries.
ReleaseBeforeValidationWitness ==
    /\ ret.op = "Delete" /\ ret.err = "InvalidSubpath"
    /\ ret.trace = <<"Release", "getLocalPathToDelete">>
    /\ ret.gid # NoGid /\ ret.gid \notin allocated
    /\ \E v \in pvs : v.Gid = ret.gid

\* C9: the GID is not released on a failed provision: when Provision has
\* allocated a GID and createVolume fails, Provision returns createVolume's
\* error and no volume, without calling Release: the allocator's table is
\* as it was and no volume is stored; and no Provision, however it returns,
\* calls Release or frees a GID.
FailedProvisionKeepsGid ==
    [][/\ \A c \in calls :
             Returning(c) /\ c.op = "Provision" =>
                 /\ ~Contains(ret'.trace, "Release")
                 /\ allocated' = allocated
                 /\ ret'.err # nil =>
                       /\ ret'.err \in CreateErrors
                       /\ ret'.pv = NoVolume
                       /\ pvs' = pvs
       /\ BeginsAndReturns /\ ret'.op = "Provision" =>
             /\ ~Contains(ret'.trace, "Release")
             /\ allocated' = allocated
             /\ ret'.pv = NoVolume
      ]_vars

\* C9 witness: a Provision that had allocated a GID has returned an error
\* of createVolume; its GID is allocated and no volume carries it.
FailedProvisionKeepsGidWitness ==
    /\ ret.op = "Provision" /\ ret.err \in CreateErrors
    /\ ret.gid # NoGid /\ ret.gid \in allocated
    /\ \A v \in pvs : v.Gid # ret.gid
    /\ \A c \in calls : c.gid # ret.gid

\* C10: a failed Provision does not destroy existing data: when a
\* Provision whose directory existed before createVolume touched it returns
\* an error, the directory and everything that was below it are still
\* there.
FailedProvisionKeepsExistingData ==
    [][\A c \in calls :
          Returning(c) /\ c.op = "Provision" /\ ret'.err # nil /\ c.existed =>
              \A q \in Tree(fs, c.path) : Exists(fs', q)
      ]_vars

=============================================================================
